---- MODULE Spec2Model ----
(***************************************************************************)
(* Polymorphic JSON decoding / encoding of the block containers of the    *)
(* slack package: Blocks, BlockElements, Accessory and ContextElements.   *)
(*                                                                         *)
(* A JSON document is [kind, elems]: kind "array" with its elements,      *)
(* kind "null", kind "object" (any value that is neither an array nor     *)
(* null), or kind "value" with one element (the bare value an Accessory   *)
(* reads and writes).  A JSON value is [j, type, id, ok]: j is the JSON   *)
(* type of the value, type the content of its "type" member, id stands    *)
(* for the rest of its members, and ok says whether those members fit the *)
(* concrete Go struct that its type selects.                               *)
(***************************************************************************)
EXTENDS Integers, Sequences, FiniteSets, TLC

VARIABLES ctype, blocks, blockElements, contextElements, accessory,
          op, mut, data, appended, err, pre, out

vars == <<ctype, blocks, blockElements, contextElements, accessory,
          op, mut, data, appended, err, pre, out>>

\* Longest input array, longest appended slice, and the largest number of
\* entries a container is grown to.
MaxLen == 2

PlainTextType == "plain_text"
MarkdownType == "mrkdwn"

\* The "type" member is absent or is not a JSON string.
NotAString == "<not-a-string>"

\* A variant outside the closed set of a type switch.
Foreign == "<foreign>"

BlockTypes == <<"actions", "context", "divider", "image", "section">>
BlockElementTypes == <<"image", "button", "overflow", "datepicker", "static_select">>
ContextElementTypes == <<"image", PlainTextType, MarkdownType>>

Range(s) == {s[i] : i \in DOMAIN s}

\* The JSON values that are no objects.  json.Unmarshal into a map rejects a
\* string and a boolean exactly as it rejects a number.
NonObjects == {"null", "number", "array"}

Obj(t, i, k) == [j |-> "object", type |-> t, id |-> i, ok |-> k]
NonObj(kd, i) == [j |-> kd, type |-> NotAString, id |-> i, ok |-> TRUE]

NoDoc == [kind |-> "none", elems |-> <<>>]
NullDoc == [kind |-> "null", elems |-> <<>>]
ObjectDoc == [kind |-> "object", elems |-> <<>>]
ArrayDoc(s) == [kind |-> "array", elems |-> s]
ValueDoc(v) == [kind |-> "value", elems |-> <<v>>]

\* A nil pointer in a slot of an Accessory.
Nil == [type |-> "<nil>", id |-> 0]

EmptyBlocks ==
    [ActionBlocks |-> <<>>, ContextBlocks |-> <<>>, DividerBlocks |-> <<>>,
     ImageBlocks |-> <<>>, SectionBlocks |-> <<>>]
EmptyBlockElements ==
    [ImageElements |-> <<>>, ButtonElements |-> <<>>, OverflowElements |-> <<>>,
     DatePickerElements |-> <<>>, SelectElements |-> <<>>]
EmptyContextElements == [ImageElements |-> <<>>, TextObjects |-> <<>>]
EmptyAccessory ==
    [ImageElement |-> Nil, ButtonElement |-> Nil, OverflowElement |-> Nil,
     DatePickerElement |-> Nil, SelectElement |-> Nil]

\* json.Unmarshal(r, &obj) into a map[string]interface{}: an object fills
\* the map, null leaves it nil, and both return no error.
UnmarshalsToMap(r) == r.j \in {"object", "null"}

\* obj["type"].(string), "" when the member is absent or no string.
Discriminator(r) ==
    IF r.j = "object" /\ r.type # NotAString THEN r.type ELSE ""

\* The concrete struct json.Unmarshal fills from r.
Element(r) == [type |-> r.type, id |-> r.id]

\* json.Marshal of one concrete struct.
EncodeElement(e) == Obj(e.type, e.id, TRUE)

Ok(b) == [err |-> FALSE, b |-> b]
Fail(b) == [err |-> TRUE, b |-> b]

(***************************************************************************)
(* Blocks                                                                  *)
(***************************************************************************)

\* unmarshalBlock: json.Unmarshal of r into the concrete block.
unmarshalBlock(r) == IF r.ok THEN Ok(Element(r)) ELSE Fail(Nil)

\* The body of the loop of Blocks.UnmarshalJSON for one raw element.
BlocksCase(b, r) ==
    IF ~UnmarshalsToMap(r) THEN Fail(b)
    ELSE LET blockType == Discriminator(r)
             block == unmarshalBlock(r)
         IN CASE blockType = "actions" ->
                   IF block.err THEN Fail(b)
                   ELSE Ok([b EXCEPT !.ActionBlocks = Append(@, block.b)])
              [] blockType = "context" ->
                   IF block.err THEN Fail(b)
                   ELSE Ok([b EXCEPT !.ContextBlocks = Append(@, block.b)])
              [] blockType = "divider" ->
                   IF block.err THEN Fail(b)
                   ELSE Ok([b EXCEPT !.DividerBlocks = Append(@, block.b)])
              [] blockType = "image" ->
                   IF block.err THEN Fail(b)
                   ELSE Ok([b EXCEPT !.ImageBlocks = Append(@, block.b)])
              [] blockType = "section" ->
                   IF block.err THEN Fail(b)
                   ELSE Ok([b EXCEPT !.SectionBlocks = Append(@, block.b)])
              [] OTHER -> Ok(b)

RECURSIVE BlocksLoop(_, _, _)
BlocksLoop(b, raw, i) ==
    IF i > Len(raw) THEN Ok(b)
    ELSE LET s == BlocksCase(b, raw[i])
         IN IF s.err THEN s ELSE BlocksLoop(s.b, raw, i + 1)

\* json.Unmarshal(data, &raw) into a []json.RawMessage: an array gives its
\* elements, null gives a nil slice, anything else is an error.
UnmarshalRaw(d) ==
    CASE d.kind = "array" -> Ok(d.elems)
      [] d.kind = "null" -> Ok(<<>>)
      [] OTHER -> Fail(<<>>)

BlocksUnmarshalJSON(b, d) ==
    LET raw == UnmarshalRaw(d)
    IN IF raw.err THEN Fail(b) ELSE BlocksLoop(b, raw.b, 1)

\* One iteration of the type switch of appendToBlocks.
appendBlock(b, block) ==
    CASE block.type = "actions" -> [b EXCEPT !.ActionBlocks = Append(@, block)]
      [] block.type = "context" -> [b EXCEPT !.ContextBlocks = Append(@, block)]
      [] block.type = "divider" -> [b EXCEPT !.DividerBlocks = Append(@, block)]
      [] block.type = "image" -> [b EXCEPT !.ImageBlocks = Append(@, block)]
      [] block.type = "section" -> [b EXCEPT !.SectionBlocks = Append(@, block)]
      [] OTHER -> b

RECURSIVE appendToBlocks(_, _)
appendToBlocks(b, appendBlocks) ==
    IF appendBlocks = <<>> THEN b
    ELSE appendToBlocks(appendBlock(b, Head(appendBlocks)), Tail(appendBlocks))

(***************************************************************************)
(* BlockElements                                                           *)
(***************************************************************************)

\* unmarshalBlockElement: json.Unmarshal of r into the concrete element.
unmarshalBlockElement(r) == IF r.ok THEN Ok(Element(r)) ELSE Fail(Nil)

\* The body of the loop of BlockElements.UnmarshalJSON for one raw element.
BlockElementsCase(b, r) ==
    IF ~UnmarshalsToMap(r) THEN Fail(b)
    ELSE LET blockElementType == Discriminator(r)
             element == unmarshalBlockElement(r)
         IN CASE blockElementType = "image" ->
                   IF element.err THEN Fail(b)
                   ELSE Ok([b EXCEPT !.ImageElements = Append(@, element.b)])
              [] blockElementType = "button" ->
                   IF element.err THEN Fail(b)
                   ELSE Ok([b EXCEPT !.ButtonElements = Append(@, element.b)])
              [] blockElementType = "overflow" ->
                   IF element.err THEN Fail(b)
                   ELSE Ok([b EXCEPT !.OverflowElements = Append(@, element.b)])
              [] blockElementType = "datepicker" ->
                   IF element.err THEN Fail(b)
                   ELSE Ok([b EXCEPT !.DatePickerElements = Append(@, element.b)])
              [] blockElementType = "static_select" ->
                   IF element.err THEN Fail(b)
                   ELSE Ok([b EXCEPT !.SelectElements = Append(@, element.b)])
              [] OTHER -> Ok(b)

RECURSIVE BlockElementsLoop(_, _, _)
BlockElementsLoop(b, raw, i) ==
    IF i > Len(raw) THEN Ok(b)
    ELSE LET s == BlockElementsCase(b, raw[i])
         IN IF s.err THEN s ELSE BlockElementsLoop(s.b, raw, i + 1)

BlockElementsUnmarshalJSON(b, d) ==
    LET raw == UnmarshalRaw(d)
    IN IF raw.err THEN Fail(b) ELSE BlockElementsLoop(b, raw.b, 1)

\* A type switch that sends a date picker to the select accumulator.
appendBlockElementMisrouted(e, element) ==
    CASE element.type = "image" -> [e EXCEPT !.ImageElements = Append(@, element)]
      [] element.type = "button" -> [e EXCEPT !.ButtonElements = Append(@, element)]
      [] element.type = "overflow" -> [e EXCEPT !.OverflowElements = Append(@, element)]
      [] element.type = "datepicker" -> [e EXCEPT !.SelectElements = Append(@, element)]
      [] element.type = "static_select" -> [e EXCEPT !.SelectElements = Append(@, element)]
      [] OTHER -> e

\* One iteration of the type switch of appendToBlockElements.
appendBlockElement(e, element) ==
    CASE element.type = "image" -> [e EXCEPT !.ImageElements = Append(@, element)]
      [] element.type = "button" -> [e EXCEPT !.ButtonElements = Append(@, element)]
      [] element.type = "overflow" -> [e EXCEPT !.OverflowElements = Append(@, element)]
      [] element.type = "datepicker" -> [e EXCEPT !.DatePickerElements = Append(@, element)]
      [] element.type = "static_select" -> [e EXCEPT !.SelectElements = Append(@, element)]
      [] OTHER -> e

RECURSIVE appendToBlockElements(_, _)
appendToBlockElements(e, appendElements) ==
    IF appendElements = <<>> THEN e
    ELSE appendToBlockElements(appendBlockElement(e, Head(appendElements)),
                               Tail(appendElements))

\* The accumulators joined with the buttons ahead of the images.
toBlockElementSliceButtonFirst(elements) ==
    elements.ButtonElements \o elements.ImageElements \o elements.OverflowElements
        \o elements.DatePickerElements \o elements.SelectElements

\* The accumulators joined without the last one.
toBlockElementSliceNoSelect(elements) ==
    elements.ImageElements \o elements.ButtonElements \o elements.OverflowElements
        \o elements.DatePickerElements

toBlockElementSlice(elements) ==
    elements.ImageElements \o elements.ButtonElements \o elements.OverflowElements
        \o elements.DatePickerElements \o elements.SelectElements

\* json.Marshal of a slice: a nil slice (nothing was appended to it) is
\* written as null, any other slice as an array of its encoded members.
MarshalSlice(slice) ==
    IF slice = <<>> THEN NullDoc
    ELSE ArrayDoc([i \in 1..Len(slice) |-> EncodeElement(slice[i])])

BlockElementsMarshalJSON(e) == MarshalSlice(toBlockElementSlice(e))

(***************************************************************************)
(* Accessory                                                               *)
(***************************************************************************)

\* Accessory.UnmarshalJSON on a document holding the bare value r.
AccessoryUnmarshalJSON(a, r) ==
    IF ~UnmarshalsToMap(r) THEN Fail(a)
    ELSE LET blockElementType == Discriminator(r)
             element == unmarshalBlockElement(r)
         IN CASE blockElementType = "image" ->
                   IF element.err THEN Fail(a)
                   ELSE Ok([a EXCEPT !.ImageElement = element.b])
              [] blockElementType = "button" ->
                   IF element.err THEN Fail(a)
                   ELSE Ok([a EXCEPT !.ButtonElement = element.b])
              [] blockElementType = "overflow" ->
                   IF element.err THEN Fail(a)
                   ELSE Ok([a EXCEPT !.OverflowElement = element.b])
              [] blockElementType = "datepicker" ->
                   IF element.err THEN Fail(a)
                   ELSE Ok([a EXCEPT !.DatePickerElement = element.b])
              [] blockElementType = "static_select" ->
                   IF element.err THEN Fail(a)
                   ELSE Ok([a EXCEPT !.SelectElement = element.b])
              [] OTHER -> Ok(a)

\* The slots tested with the button ahead of the image.
toBlockElementButtonFirst(element) ==
    IF element.ButtonElement # Nil THEN element.ButtonElement
    ELSE IF element.ImageElement # Nil THEN element.ImageElement
    ELSE IF element.OverflowElement # Nil THEN element.OverflowElement
    ELSE IF element.DatePickerElement # Nil THEN element.DatePickerElement
    ELSE IF element.SelectElement # Nil THEN element.SelectElement
    ELSE Nil

toBlockElement(element) ==
    IF element.ImageElement # Nil THEN element.ImageElement
    ELSE IF element.ButtonElement # Nil THEN element.ButtonElement
    ELSE IF element.OverflowElement # Nil THEN element.OverflowElement
    ELSE IF element.DatePickerElement # Nil THEN element.DatePickerElement
    ELSE IF element.SelectElement # Nil THEN element.SelectElement
    ELSE Nil

\* json.Marshal of one BlockElement interface value: null for a nil one.
MarshalValue(e) ==
    IF e = Nil THEN ValueDoc(NonObj("null", 0)) ELSE ValueDoc(EncodeElement(e))

AccessoryMarshalJSON(a) == MarshalValue(toBlockElement(a))

(***************************************************************************)
(* ContextElements                                                         *)
(***************************************************************************)

\* unmarshalBlockObject: json.Unmarshal of r into the concrete object.
unmarshalBlockObject(r) == IF r.ok THEN Ok(Element(r)) ELSE Fail(Nil)

\* A decoder that rejects a discriminator it does not know.
ContextElementsCaseStrict(e, r) ==
    IF ~UnmarshalsToMap(r) THEN Fail(e)
    ELSE LET contextElementType == Discriminator(r)
         IN CASE contextElementType \in {PlainTextType, MarkdownType} ->
                   LET elem == unmarshalBlockObject(r)
                   IN IF elem.err THEN Fail(e)
                      ELSE Ok([e EXCEPT !.TextObjects = Append(@, elem.b)])
              [] contextElementType = "image" ->
                   LET elem == unmarshalBlockElement(r)
                   IN IF elem.err THEN Fail(e)
                      ELSE Ok([e EXCEPT !.ImageElements = Append(@, elem.b)])
              [] OTHER -> Fail(e)

\* The body of the loop of ContextElements.UnmarshalJSON for one raw element.
ContextElementsCase(e, r) ==
    IF ~UnmarshalsToMap(r) THEN Fail(e)
    ELSE LET contextElementType == Discriminator(r)
         IN CASE contextElementType \in {PlainTextType, MarkdownType} ->
                   LET elem == unmarshalBlockObject(r)
                   IN IF elem.err THEN Fail(e)
                      ELSE Ok([e EXCEPT !.TextObjects = Append(@, elem.b)])
              [] contextElementType = "image" ->
                   LET elem == unmarshalBlockElement(r)
                   IN IF elem.err THEN Fail(e)
                      ELSE Ok([e EXCEPT !.ImageElements = Append(@, elem.b)])
              [] OTHER -> Ok(e)

RECURSIVE ContextElementsLoop(_, _, _)
ContextElementsLoop(e, raw, i) ==
    IF i > Len(raw) THEN Ok(e)
    ELSE LET s == ContextElementsCase(e, raw[i])
         IN IF s.err THEN s ELSE ContextElementsLoop(s.b, raw, i + 1)

ContextElementsUnmarshalJSON(e, d) ==
    LET raw == UnmarshalRaw(d)
    IN IF raw.err THEN Fail(e) ELSE ContextElementsLoop(e, raw.b, 1)

\* The accumulators joined with the text objects ahead of the images.
toMixedElementsTextFirst(elements) ==
    elements.TextObjects \o elements.ImageElements

toMixedElements(elements) ==
    elements.ImageElements \o elements.TextObjects

ContextElementsMarshalJSON(e) == MarshalSlice(toMixedElements(e))

(***************************************************************************)
(* The inputs of the calls                                                 *)
(***************************************************************************)

\* The JSON values an element of an input array is drawn from: an object of
\* each recognized type whose members fit its struct, an object of the last
\* recognized type whose members do not fit it, an object of a type the
\* container does not know, an object without a string "type", and the
\* values that are no objects.
Values(types, unknown) ==
    {Obj(t, 0, TRUE) : t \in Range(types) \cup {unknown, NotAString}}
        \cup {Obj(types[Len(types)], 0, FALSE)}
        \cup {NonObj(kd, 0) : kd \in NonObjects}

\* The arrays of n values; the id of a value is its place in the array.
ArraysOf(S, n) == {[i \in 1..n |-> [f[i] EXCEPT !.id = i]] : f \in [1..n -> S]}

Docs(types, unknown, room) ==
    {NullDoc, ObjectDoc}
        \cup UNION {{ArrayDoc(s) : s \in ArraysOf(Values(types, unknown), n)} :
                    n \in 0..room}

\* The typed variants an append call is given.
Variants(types) == {[type |-> t, id |-> 0] : t \in Range(types) \cup {Foreign}}

Slices(types, room) == UNION {ArraysOf(Variants(types), n) : n \in 0..room}

\* The inputs of each call, by the room left in the container.
BlocksDocs == [room \in 0..MaxLen |-> Docs(BlockTypes, "button", room)]
BlocksSlices == [room \in 0..MaxLen |-> Slices(BlockTypes, room)]
BlockElementsDocs == [room \in 0..MaxLen |-> Docs(BlockElementTypes, PlainTextType, room)]
BlockElementsSlices == [room \in 0..MaxLen |-> Slices(BlockElementTypes, room)]
AccessoryValues ==
    {[v EXCEPT !.id = i] : v \in Values(BlockElementTypes, PlainTextType), i \in 1..MaxLen}
ContextElementsDocs == [room \in 0..MaxLen |-> Docs(ContextElementTypes, "button", room)]

BlocksSize(b) ==
    Len(b.ActionBlocks) + Len(b.ContextBlocks) + Len(b.DividerBlocks)
        + Len(b.ImageBlocks) + Len(b.SectionBlocks)
BlockElementsSize(e) ==
    Len(e.ImageElements) + Len(e.ButtonElements) + Len(e.OverflowElements)
        + Len(e.DatePickerElements) + Len(e.SelectElements)
ContextElementsSize(e) == Len(e.ImageElements) + Len(e.TextObjects)

(***************************************************************************)
(* The state machine: one container value and the calls made on it         *)
(***************************************************************************)

Init ==
    /\ ctype \in {"Blocks", "BlockElements", "Accessory", "ContextElements"}
    /\ blocks = EmptyBlocks
    /\ blockElements = EmptyBlockElements
    /\ accessory = EmptyAccessory
    /\ contextElements = EmptyContextElements
    /\ op = "new"
    /\ mut = "new"
    /\ data = NoDoc
    /\ appended = <<>>
    /\ err = FALSE
    /\ pre = CASE ctype = "Blocks" -> EmptyBlocks
               [] ctype = "BlockElements" -> EmptyBlockElements
               [] ctype = "Accessory" -> EmptyAccessory
               [] OTHER -> EmptyContextElements
    /\ out = NoDoc

UnmarshalBlocks ==
    /\ ctype = "Blocks"
    /\ \E d \in BlocksDocs[MaxLen - BlocksSize(blocks)] :
          LET s == BlocksUnmarshalJSON(blocks, d)
          IN /\ blocks' = s.b
             /\ err' = s.err
             /\ data' = d
    /\ pre' = blocks
    /\ op' = "UnmarshalJSON"
    /\ mut' = "UnmarshalJSON"
    /\ appended' = <<>>
    /\ out' = NoDoc
    /\ UNCHANGED <<ctype, blockElements, accessory, contextElements>>

AppendBlocks ==
    /\ ctype = "Blocks"
    /\ \E S \in BlocksSlices[MaxLen - BlocksSize(blocks)] :
          /\ blocks' = appendToBlocks(blocks, S)
          /\ appended' = S
    /\ pre' = blocks
    /\ op' = "append"
    /\ mut' = "append"
    /\ err' = FALSE
    /\ data' = NoDoc
    /\ out' = NoDoc
    /\ UNCHANGED <<ctype, blockElements, accessory, contextElements>>

UnmarshalBlockElements ==
    /\ ctype = "BlockElements"
    /\ \E d \in BlockElementsDocs[MaxLen - BlockElementsSize(blockElements)] :
          LET s == BlockElementsUnmarshalJSON(blockElements, d)
          IN /\ blockElements' = s.b
             /\ err' = s.err
             /\ data' = d
    /\ pre' = blockElements
    /\ op' = "UnmarshalJSON"
    /\ mut' = "UnmarshalJSON"
    /\ appended' = <<>>
    /\ out' = NoDoc
    /\ UNCHANGED <<ctype, blocks, accessory, contextElements>>

AppendBlockElements ==
    /\ ctype = "BlockElements"
    /\ \E S \in BlockElementsSlices[MaxLen - BlockElementsSize(blockElements)] :
          /\ blockElements' = appendToBlockElements(blockElements, S)
          /\ appended' = S
    /\ pre' = blockElements
    /\ op' = "append"
    /\ mut' = "append"
    /\ err' = FALSE
    /\ data' = NoDoc
    /\ out' = NoDoc
    /\ UNCHANGED <<ctype, blocks, accessory, contextElements>>

MarshalBlockElements ==
    /\ ctype = "BlockElements"
    /\ out' = BlockElementsMarshalJSON(blockElements)
    /\ op' = "MarshalJSON"
    /\ UNCHANGED <<ctype, blocks, blockElements, accessory, contextElements,
                   mut, data, appended, err, pre>>

UnmarshalAccessory ==
    /\ ctype = "Accessory"
    /\ \E r \in AccessoryValues :
          LET s == AccessoryUnmarshalJSON(accessory, r)
          IN /\ accessory' = s.b
             /\ err' = s.err
             /\ data' = ValueDoc(r)
    /\ pre' = accessory
    /\ op' = "UnmarshalJSON"
    /\ mut' = "UnmarshalJSON"
    /\ appended' = <<>>
    /\ out' = NoDoc
    /\ UNCHANGED <<ctype, blocks, blockElements, contextElements>>

MarshalAccessory ==
    /\ ctype = "Accessory"
    /\ out' = AccessoryMarshalJSON(accessory)
    /\ op' = "MarshalJSON"
    /\ UNCHANGED <<ctype, blocks, blockElements, accessory, contextElements,
                   mut, data, appended, err, pre>>

UnmarshalContextElements ==
    /\ ctype = "ContextElements"
    /\ \E d \in ContextElementsDocs[MaxLen - ContextElementsSize(contextElements)] :
          LET s == ContextElementsUnmarshalJSON(contextElements, d)
          IN /\ contextElements' = s.b
             /\ err' = s.err
             /\ data' = d
    /\ pre' = contextElements
    /\ op' = "UnmarshalJSON"
    /\ mut' = "UnmarshalJSON"
    /\ appended' = <<>>
    /\ out' = NoDoc
    /\ UNCHANGED <<ctype, blocks, blockElements, accessory>>

MarshalContextElements ==
    /\ ctype = "ContextElements"
    /\ out' = ContextElementsMarshalJSON(contextElements)
    /\ op' = "MarshalJSON"
    /\ UNCHANGED <<ctype, blocks, blockElements, accessory, contextElements,
                   mut, data, appended, err, pre>>

Next ==
    \/ UnmarshalBlocks
    \/ AppendBlocks
    \/ UnmarshalBlockElements
    \/ AppendBlockElements
    \/ MarshalBlockElements
    \/ UnmarshalAccessory
    \/ MarshalAccessory
    \/ UnmarshalContextElements
    \/ MarshalContextElements

Spec == Init /\ [][Next]_vars

(***************************************************************************)
(* Properties                                                              *)
(***************************************************************************)

ArrayContainers == {"Blocks", "BlockElements", "ContextElements"}

\* The container value the calls are made on.
Container ==
    CASE ctype = "Blocks" -> blocks
      [] ctype = "BlockElements" -> blockElements
      [] ctype = "Accessory" -> accessory
      [] OTHER -> contextElements

EmptyContainer ==
    CASE ctype = "Blocks" -> EmptyBlocks
      [] ctype = "BlockElements" -> EmptyBlockElements
      [] ctype = "Accessory" -> EmptyAccessory
      [] OTHER -> EmptyContextElements

\* The discriminators the decoder of the container knows.
Known ==
    CASE ctype = "Blocks" -> Range(BlockTypes)
      [] ctype = "ContextElements" -> Range(ContextElementTypes)
      [] OTHER -> Range(BlockElementTypes)

\* All entries of all accumulators of the container.
Entries ==
    CASE ctype = "Blocks" ->
           blocks.ActionBlocks \o blocks.ContextBlocks \o blocks.DividerBlocks
               \o blocks.ImageBlocks \o blocks.SectionBlocks
      [] ctype = "BlockElements" ->
           blockElements.ImageElements \o blockElements.ButtonElements
               \o blockElements.OverflowElements \o blockElements.DatePickerElements
               \o blockElements.SelectElements
      [] ctype = "ContextElements" ->
           contextElements.ImageElements \o contextElements.TextObjects
      [] OTHER -> <<>>

\* The result of the same decode call made on an empty container.
DecodeIntoEmpty(d) ==
    CASE ctype = "Blocks" -> BlocksUnmarshalJSON(EmptyBlocks, d)
      [] ctype = "BlockElements" -> BlockElementsUnmarshalJSON(EmptyBlockElements, d)
      [] ctype = "Accessory" -> AccessoryUnmarshalJSON(EmptyAccessory, d.elems[1])
      [] OTHER -> ContextElementsUnmarshalJSON(EmptyContextElements, d)

\* The last call decoded an array into an empty array container.
DecodedArrayIntoEmpty ==
    /\ ctype \in ArrayContainers
    /\ mut = "UnmarshalJSON"
    /\ pre = EmptyContainer
    /\ data.kind = "array"

AllObjects == \A i \in DOMAIN data.elems : data.elems[i].j = "object"
IsKnown(r) == Discriminator(r) \in Known
AllKnown == \A i \in DOMAIN data.elems : IsKnown(data.elems[i])
KnownFit == \A i \in DOMAIN data.elems : IsKnown(data.elems[i]) => data.elems[i].ok

\* C1: whenever a decode of an array container returns an error, every
\* accumulator of the container is exactly as it was before the call.
C1_AllOrNothing ==
    (ctype \in ArrayContainers /\ op = "UnmarshalJSON" /\ err) => Container = pre

\* What C2 says of a decode: no error, every entry is a recognized element
\* of the input, and there are as many entries as recognized elements.
OnlyKnownDecoded ==
    /\ ~err
    /\ \A k \in DOMAIN Entries :
          /\ Entries[k].id \in DOMAIN data.elems
          /\ IsKnown(data.elems[Entries[k].id])
          /\ Entries[k] = Element(data.elems[Entries[k].id])
    /\ Len(Entries) = Cardinality({i \in DOMAIN data.elems : IsKnown(data.elems[i])})

\* C2 as stated: every array of well-formed objects, recognized ones and
\* unrecognized ones mixed, decodes into an empty container without error,
\* and exactly its recognized elements are collected.
C2_SkipsUnknown_Original ==
    (DecodedArrayIntoEmpty /\ op = "UnmarshalJSON" /\ AllObjects) => OnlyKnownDecoded

\* C2 amended: the same, for the arrays of objects whose recognized
\* elements all fit the concrete shape their type selects.
C2_SkipsUnknown ==
    (DecodedArrayIntoEmpty /\ op = "UnmarshalJSON" /\ AllObjects /\ KnownFit)
        => OnlyKnownDecoded

C2_Witness ==
    /\ DecodedArrayIntoEmpty /\ op = "UnmarshalJSON" /\ AllObjects /\ KnownFit
    /\ \E i, k \in DOMAIN data.elems :
          i < k /\ ~IsKnown(data.elems[i]) /\ IsKnown(data.elems[k])
    /\ Len(Entries) = 1

\* The place of a kind in the encoding order of its container.
Rank(t) ==
    CASE t = "image" -> 1
      [] t = "button" -> 2
      [] t = "overflow" -> 3
      [] t = "datepicker" -> 4
      [] t = "static_select" -> 5
      [] OTHER -> 6

\* o holds each member of x once, grouped by rank, and within one rank in
\* the order of x (the id of a member of x is its place in x).
StableSorted(o, x) ==
    /\ Len(o) = Len(x)
    /\ \A k \in DOMAIN o : o[k].id \in DOMAIN x /\ o[k] = x[o[k].id]
    /\ \A k, l \in DOMAIN o :
          k < l => \/ Rank(o[k].type) < Rank(o[l].type)
                   \/ Rank(o[k].type) = Rank(o[l].type) /\ o[k].id < o[l].id

\* The last calls decoded a valid array of recognized elements into an
\* empty container and then encoded the container.
RoundTripped ==
    /\ DecodedArrayIntoEmpty /\ op = "MarshalJSON"
    /\ AllObjects /\ AllKnown /\ KnownFit

Slots(a) ==
    <<a.ImageElement, a.ButtonElement, a.OverflowElement, a.DatePickerElement,
      a.SelectElement>>

\* C4: encoding an Accessory writes one bare value, the element of the
\* first populated slot in the order image, button, overflow, date picker,
\* select, and null when no slot is populated.
C4_AccessoryEncodesFirstSlot ==
    (ctype = "Accessory" /\ op = "MarshalJSON") =>
        /\ out.kind = "value"
        /\ LET sl == Slots(accessory)
           IN IF \A k \in 1..5 : sl[k] = Nil THEN out.elems[1].j = "null"
              ELSE \E k \in 1..5 :
                      /\ sl[k] # Nil
                      /\ \A m \in 1..(k - 1) : sl[m] = Nil
                      /\ out.elems[1] = EncodeElement(sl[k])

C4_Witness ==
    /\ ctype = "Accessory" /\ op = "MarshalJSON"
    /\ accessory.ImageElement = Nil
    /\ accessory.ButtonElement # Nil
    /\ accessory.SelectElement # Nil
    /\ out.elems[1].type = "button"

C4_WitnessNull ==
    /\ ctype = "Accessory" /\ op = "MarshalJSON"
    /\ accessory = EmptyAccessory
    /\ out.elems[1].j = "null"

Populated(a) == {k \in 1..5 : Slots(a)[k] # Nil}

\* C5: an Accessory reached by decode calls has at most one populated slot,
\* and after a successful decode of an object of a recognized kind exactly
\* the slot of that kind is populated.
C5_SingleSlot ==
    ctype = "Accessory" =>
        /\ Cardinality(Populated(accessory)) <= 1
        /\ (op = "UnmarshalJSON" /\ ~err /\ IsKnown(data.elems[1]))
              => Populated(accessory) = {Rank(data.elems[1].type)}

C7_NonObjectIsError ==
    (ctype \in ArrayContainers /\ op = "UnmarshalJSON" /\ data.kind = "array"
        /\ ~AllObjects) => err

\* The members of S of the variant t, in their order in S.
OfVariant(S, t) == LET Is(v) == v.type = t IN SelectSeq(S, Is)

\* C8: an append call leaves each accumulator as its previous content
\* followed by the members of the given slice of its own kind, in their
\* order; members outside the closed variant set go nowhere.
C8_AppendRoutesByKind ==
    /\ (ctype = "Blocks" /\ op = "append") =>
          /\ blocks.ActionBlocks = pre.ActionBlocks \o OfVariant(appended, "actions")
          /\ blocks.ContextBlocks = pre.ContextBlocks \o OfVariant(appended, "context")
          /\ blocks.DividerBlocks = pre.DividerBlocks \o OfVariant(appended, "divider")
          /\ blocks.ImageBlocks = pre.ImageBlocks \o OfVariant(appended, "image")
          /\ blocks.SectionBlocks = pre.SectionBlocks \o OfVariant(appended, "section")
    /\ (ctype = "BlockElements" /\ op = "append") =>
          /\ blockElements.ImageElements
                = pre.ImageElements \o OfVariant(appended, "image")
          /\ blockElements.ButtonElements
                = pre.ButtonElements \o OfVariant(appended, "button")
          /\ blockElements.OverflowElements
                = pre.OverflowElements \o OfVariant(appended, "overflow")
          /\ blockElements.DatePickerElements
                = pre.DatePickerElements \o OfVariant(appended, "datepicker")
          /\ blockElements.SelectElements
                = pre.SelectElements \o OfVariant(appended, "static_select")

C8_Witness ==
    /\ ctype = "BlockElements" /\ op = "append"
    /\ pre # EmptyBlockElements
    /\ appended # <<>>
    /\ appended[1].type = "datepicker"
    /\ Len(blockElements.DatePickerElements) = 1

C8_WitnessForeign ==
    /\ ctype = "Blocks" /\ op = "append"
    /\ Len(appended) = 2
    /\ appended[1].type = Foreign
    /\ appended[2].type = "section"
    /\ BlocksSize(blocks) = BlocksSize(pre) + 1

\* C9: after a successful decode the container holds what the same input
\* decoded into an empty container gives, whatever it held before.
C9_FreshPerCall ==
    (op = "UnmarshalJSON" /\ ~err) => Container = DecodeIntoEmpty(data).b

\* The container decoded from the last encoding, starting empty.
Redecoded == DecodeIntoEmpty(out)

Reencoded ==
    IF ctype = "BlockElements" THEN BlockElementsMarshalJSON(Redecoded.b)
    ELSE ContextElementsMarshalJSON(Redecoded.b)

\* C10: for a BlockElements or ContextElements decoded from an array into
\* an empty container, decoding its encoding gives the same container, and
\* encoding that again gives the same encoding.
C10_RoundTripIdempotent ==
    (ctype \in {"BlockElements", "ContextElements"} /\ DecodedArrayIntoEmpty
        /\ ~err /\ op = "MarshalJSON") =>
        /\ ~Redecoded.err
        /\ Redecoded.b = Container
        /\ Reencoded = out

C10_Witness ==
    /\ ctype = "BlockElements" /\ RoundTripped
    /\ Len(data.elems) = 2
    /\ data.elems[1].type = "static_select"
    /\ data.elems[2].type = "image"
    /\ Redecoded.b = blockElements
    /\ out.elems[2].type = "static_select"

====
